---- MODULE Spec2Model ----
(***************************************************************************)
(* Model of deckel_post.py, the FreeCAD Path post processor for the Deckel *)
(* FP4A (Contour 2 control).  The model covers parse(), the translator of  *)
(* one path object's command list into Deckel program lines, together with *)
(* the module globals it shares with every other call of parse():          *)
(* LINENR, SPINDLE_SPEED and LAST_SPINDLE_SPEED.                           *)
(*                                                                         *)
(* Numbers.  Path parameters are Python floats (mm, mm/s, rpm).  The model *)
(* holds every parameter value as an integer count of thousandths, so that *)
(* 1.239 mm is 1239 and S=1200 is 1200000; int(...) is truncation toward   *)
(* zero of the exact quotient.  The values of CommandSet are chosen so     *)
(* that the binary floating point product of the source truncates to the   *)
(* same integer as the exact one.                                          *)
(*                                                                         *)
(* Text.  An output line is the sequence of its words; a word is a record  *)
(* of its letter (or mnemonic), the sign character printed and the         *)
(* magnitude printed, so "X+1000" is [letter "X", sign "+", mag 1000] and  *)
(* "S-1200" is [letter "S", sign "-", mag 1200].                           *)
(***************************************************************************)
EXTENDS Integers, Sequences, FiniteSets, TLC

VARIABLES
    MODAL,               \* global MODAL, set by processArguments (--modal)
    UNIT_FORMAT,         \* global UNIT_FORMAT, "mm" or "in" (--inches)
    LINENR,              \* global line counter
    SPINDLE_SPEED,       \* global, thousandths of rpm, signed
    LAST_SPINDLE_SPEED,  \* global, thousandths of rpm, signed
    lastcommand,         \* local of the running parse() call
    currLocation,        \* local of the running parse() call
    out,                 \* local of the running parse() call: the lines each
                         \* iteration so far has appended to it, in order
    Group,               \* the path objects handed to parse() so far, each
                         \* the list of its Path.Commands; the last is current
    idx,                 \* number of commands of the current object consumed
    again,               \* the current object is the previous one, once more
    inputs,              \* the commands this run's path objects are made of
    returned,            \* the values returned by the finished parse() calls
    step                 \* what the latest loop iteration did (observation)

vars == <<MODAL, UNIT_FORMAT, LINENR, SPINDLE_SPEED, LAST_SPINDLE_SPEED,
          lastcommand, currLocation, out, Group, idx, again, inputs,
          returned, step>>

-----------------------------------------------------------------------------
(* Bounds of the model *)

\* commands consumed by all parse() calls together
MaxCommands == 3

\* parse() calls (path objects translated one after another)
MaxParses == 3

-----------------------------------------------------------------------------
(* Configuration globals that no option can change *)

\* line 75: default False, and --axis-modal also assigns False
OUTPUT_DOUBLES == FALSE

\* line 71: default True, and --line-numbers also assigns True
OUTPUT_LINE_NUMBERS == TRUE

\* line 69: default False, and --no-comments also assigns False
OUTPUT_COMMENTS == FALSE

None == "None"

-----------------------------------------------------------------------------
(* Arithmetic and text *)

Abs(n) == IF n < 0 THEN -n ELSE n

\* Python int(a / b) for b > 0: truncation toward zero
TruncDiv(a, b) == IF a >= 0 THEN a \div b ELSE -((-a) \div b)

Word(letter, sign, mag) == [letter |-> letter, sign |-> sign, mag |-> mag]

\* str(n) / f"{n}" of a Python int: a minus sign for negatives, none otherwise
IntWord(letter, n) == Word(letter, IF n < 0 THEN "-" ELSE "", Abs(n))

\* int(x) of a float held in thousandths
ToInt(v) == TruncDiv(v, 1000)

\* int(pos.getValueAs(UNIT_FORMAT) * 100.0), v in thousandths of a mm
Position(v, unit) ==
    IF unit = "mm" THEN TruncDiv(v, 10) ELSE TruncDiv(v, 254)

\* sign = "+" if position >= 0 else ""; param + f"{sign}{position}"
LengthWord(param, v, unit) ==
    LET position == Position(v, unit)
    IN  IF position >= 0 THEN Word(param, "+", position)
        ELSE IntWord(param, position)

\* speed.getValueAs(UNIT_SPEED_FORMAT) > 0.0, v in thousandths of mm/s;
\* the unit conversion is a positive factor
SpeedPositive(v) == v > 0

\* int(speed.getValueAs(UNIT_SPEED_FORMAT)): mm/s to mm/min or in/min
SpeedInt(v, unit) ==
    IF unit = "mm" THEN TruncDiv(v * 60, 1000) ELSE TruncDiv(v * 60, 25400)

-----------------------------------------------------------------------------
(* Commands *)

NoParameters == [p \in {} |-> 0]

Cmd(name, parameters) == [Name |-> name, Parameters |-> parameters]

\* The inputs of the model: Path.Command values, parameters in thousandths.
\* A run draws the commands of its path objects from one of three families.

\* positioning: rapid and linear moves, a Y and Z move, an unknown plane select
AxisCommands ==
    { Cmd("G0",  [X |-> 10000, F |-> 5000]),
      Cmd("G1",  [X |-> 10000, F |-> 5000]),
      Cmd("G1",  [Y |-> 10000, Z |-> -5000]),
      Cmd("G1",  [X |-> 1239]),
      Cmd("G1",  [X |-> -1000]),
      Cmd("G18", NoParameters),
      Cmd("G54", NoParameters) }

\* spindle: spindle-on in both directions, with and without S, and moves
SpindleCommands ==
    { Cmd("M3",  [S |-> 1200000]),
      Cmd("M3",  NoParameters),
      Cmd("M4",  NoParameters),
      Cmd("G1",  [X |-> 10000]),
      Cmd("G1",  [X |-> 2000]),
      Cmd("G1",  [X |-> 3000, S |-> 500000]),
      Cmd("G54", NoParameters),
      Cmd("G18", NoParameters) }

\* feed and the remaining letters: negative and tiny feeds, arcs, offsets
FeedCommands ==
    { Cmd("G1",  [X |-> 2000, F |-> -1000]),
      Cmd("G1",  [X |-> 3000, F |-> 10]),
      Cmd("G1",  [X |-> 3000, F |-> 5009]),
      Cmd("G2",  [X |-> 2000, I |-> 1000]),
      Cmd("G2",  [X |-> 3000, I |-> 1000]),
      Cmd("G0",  [Z |-> 5000, H |-> 1000]),
      Cmd("G21", NoParameters) }

Families == {AxisCommands, SpindleCommands, FeedCommands}

CommandSet == UNION Families

\* the order of parameters
params == <<"X", "Y", "Z", "A", "B", "C", "I", "J", "F", "S", "T", "Q", "R",
            "L", "H", "D", "P">>

\* Path.Command("G0", {"X": -1, "Y": -1, "Z": -1, "F": 0.0}).Parameters
firstmove == [X |-> -1000, Y |-> -1000, Z |-> -1000, F |-> 0]

\* dict.update
Update(d, e) ==
    [p \in DOMAIN d \cup DOMAIN e |-> IF p \in DOMAIN e THEN e[p] ELSE d[p]]

command_map ==
    [G0 |-> "G00", G1 |-> "G01", G2 |-> "G02", G3 |-> "G03", G54 |-> "G54"]

\* passes an unknown name through, as the warning of line 296 words it
parse_command_PassThrough(name) ==
    IF name \notin DOMAIN command_map THEN name ELSE command_map[name]

parse_command(name) ==
    IF name \notin DOMAIN command_map THEN None ELSE command_map[name]

\* command.startswith("G"), over the values parse_command can return
StartsWithG(command) == command \in {"G00", "G01", "G02", "G03", "G54"}

\* linenumber(): the counter after the call and the text returned, less the
\* trailing blank that parse() cuts off
linenumber(n) ==
    IF OUTPUT_LINE_NUMBERS
    THEN [LINENR |-> n + 1, text |-> <<Word("N", "", n + 1)>>]
    ELSE [LINENR |-> n, text |-> <<>>]

-----------------------------------------------------------------------------
(* One iteration of the loop over pathobj.Path.Commands *)

\* the mnemonic left out whenever any command came before
ModalSuppressed_AnyPrevious(modal, command, last) == modal /\ last # None

\* the test of MODAL left out
ModalSuppressed_Unconditional(modal, command, last) == command = last

\* lines 380-382: the mnemonic is popped again when it repeats
ModalSuppressed(modal, command, last) == modal /\ command = last

\* lines 388-439: the words one parameter letter adds to outstring
FormatParam(c, param, loc, unit) ==
    IF param \notin DOMAIN c.Parameters THEN <<>>
    ELSE IF param = "F" /\ (loc[param] # c.Parameters[param] \/ OUTPUT_DOUBLES)
    THEN IF c.Name \notin {"G0", "G00"}
         THEN IF SpeedPositive(c.Parameters["F"])
              THEN <<Word("F", "", SpeedInt(c.Parameters["F"], unit))>>
              ELSE <<>>
         ELSE <<>>
    ELSE IF param \in {"T", "H", "D", "S"}
    THEN <<IntWord(param, ToInt(c.Parameters[param]))>>
    ELSE IF (~OUTPUT_DOUBLES) /\ param \in DOMAIN loc
                              /\ loc[param] = c.Parameters[param]
    THEN <<>>
    ELSE IF param \in {"A", "B", "C"}
    THEN <<>>
    ELSE <<LengthWord(param, c.Parameters[param], unit)>>

RECURSIVE AddParams(_, _, _, _, _)
AddParams(outstring, c, loc, unit, i) ==
    IF i > Len(params) THEN outstring
    ELSE AddParams(outstring \o FormatParam(c, params[i], loc, unit),
                   c, loc, unit, i + 1)

\* the spindle word on every line, changed or not
SpindleEdge_EveryLine(command, speed, lastspeed) == StartsWithG(command)

\* line 444: the condition of the spindle word
SpindleEdge(command, speed, lastspeed) ==
    StartsWithG(command) /\ speed # lastspeed

\* lines 365-369: SPINDLE_SPEED after M3 / M4
SpindleOn(c, speed) ==
    LET factor == IF c.Name = "M3" THEN 1 ELSE -1
    IN  factor * (IF "S" \in DOMAIN c.Parameters
                  THEN c.Parameters["S"] ELSE speed)

\* a line number taken even when there is nothing to write
Emit_CountsEmpty(outstring, n) ==
    IF Len(outstring) >= 1
    THEN [LINENR |-> linenumber(n).LINENR,
          lines  |-> <<linenumber(n).text \o outstring>>]
    ELSE [LINENR |-> linenumber(n).LINENR, lines |-> <<>>]

\* lines 470-480: the lines written for outstring, and the counter after
Emit(outstring, n) ==
    IF Len(outstring) >= 1
    THEN [LINENR |-> linenumber(n).LINENR,
          lines  |-> <<linenumber(n).text \o outstring>>]
    ELSE [LINENR |-> n, lines |-> <<>>]

\* the state an iteration reads and writes
State ==
    [LINENR |-> LINENR, SPINDLE_SPEED |-> SPINDLE_SPEED,
     LAST_SPINDLE_SPEED |-> LAST_SPINDLE_SPEED,
     lastcommand |-> lastcommand, currLocation |-> currLocation]

\* lines 361-480: the body of the loop for command c in state s.  The
\* branches for comments, "M6" and "message" (384, 453, 464) cannot be
\* taken: parse_command returns only the five mnemonics of command_map.
Iteration(c, s, modal, unit) ==
    IF c.Name \in {"M3", "M4"}
    THEN [kind |-> "spindle", edge |-> FALSE, lines |-> <<>>,
          post |-> [s EXCEPT !.SPINDLE_SPEED = SpindleOn(c, s.SPINDLE_SPEED)]]
    ELSE IF c.Name = "G21"
    THEN [kind |-> "units", edge |-> FALSE, lines |-> <<>>, post |-> s]
    ELSE IF parse_command(c.Name) = None
    THEN [kind |-> "unknown", edge |-> FALSE, lines |-> <<>>, post |-> s]
    ELSE
      LET command == parse_command(c.Name)
          head    == IF ModalSuppressed(modal, command, s.lastcommand)
                     THEN <<>> ELSE <<Word(command, "", 0)>>
          words   == AddParams(head, c, s.currLocation, unit, 1)
          edge    == SpindleEdge(command, s.SPINDLE_SPEED,
                                 s.LAST_SPINDLE_SPEED)
          outstring == IF edge
                       THEN Append(words, IntWord("S", ToInt(s.SPINDLE_SPEED)))
                       ELSE words
          e       == Emit(outstring, s.LINENR)
      IN  [kind |-> "translated", edge |-> edge, lines |-> e.lines,
           post |-> [LINENR |-> e.LINENR,
                     SPINDLE_SPEED |-> s.SPINDLE_SPEED,
                     LAST_SPINDLE_SPEED |->
                         IF edge THEN s.SPINDLE_SPEED
                         ELSE s.LAST_SPINDLE_SPEED,
                     lastcommand |-> command,
                     currLocation |-> Update(s.currLocation, c.Parameters)]]

-----------------------------------------------------------------------------
(* The program *)

NoCommand == Cmd("", NoParameters)

Entry == [kind |-> "entry", c |-> NoCommand, edge |-> FALSE,
          lines |-> <<>>, pre |-> State]

\* the concatenation of a sequence of sequences
RECURSIVE Flatten(_)
Flatten(ss) == IF ss = <<>> THEN <<>> ELSE Head(ss) \o Flatten(Tail(ss))

RECURSIVE Total(_)
Total(g) == IF g = <<>> THEN 0 ELSE Len(Head(g)) + Total(Tail(g))

Current == Group[Len(Group)]

\* module load, processArguments, and the entry of the first parse() call
Init ==
    /\ MODAL \in BOOLEAN
    /\ UNIT_FORMAT \in {"mm", "in"}
    /\ LINENR = 0
    /\ SPINDLE_SPEED = 0
    /\ LAST_SPINDLE_SPEED = 0
    /\ lastcommand = None
    /\ currLocation = firstmove
    /\ out = <<>>
    /\ Group = << <<>> >>
    /\ idx = 0
    /\ again = FALSE
    /\ inputs \in Families
    /\ returned = <<>>
    /\ step = [kind |-> "entry", c |-> NoCommand, edge |-> FALSE,
               lines |-> <<>>,
               pre |-> [LINENR |-> 0, SPINDLE_SPEED |-> 0,
                        LAST_SPINDLE_SPEED |-> 0, lastcommand |-> None,
                        currLocation |-> firstmove]]

\* the loop body applied to command c
Apply(c) ==
    LET r == Iteration(c, State, MODAL, UNIT_FORMAT)
    IN  /\ LINENR' = r.post.LINENR
        /\ SPINDLE_SPEED' = r.post.SPINDLE_SPEED
        /\ LAST_SPINDLE_SPEED' = r.post.LAST_SPINDLE_SPEED
        /\ lastcommand' = r.post.lastcommand
        /\ currLocation' = r.post.currLocation
        /\ out' = Append(out, r.lines)
        /\ step' = [kind |-> r.kind, c |-> c, edge |-> r.edge,
                    lines |-> r.lines, pre |-> State]
        /\ idx' = idx + 1
        /\ UNCHANGED <<MODAL, UNIT_FORMAT, again, inputs, returned>>

\* one iteration on the next command of a path object seen for the first time
Translate ==
    /\ ~again
    /\ Total(Group) < MaxCommands
    /\ \E c \in inputs :
          /\ Group' = [Group EXCEPT ![Len(Group)] = Append(@, c)]
          /\ Apply(c)

\* one iteration on the next command of the object that is translated again
Retranslate ==
    /\ again
    /\ idx < Len(Current)
    /\ Apply(Current[idx + 1])
    /\ UNCHANGED Group

\* return out; parse() is entered for the next path object
ParseNext ==
    /\ idx = Len(Current)
    /\ Len(Current) > 0
    /\ Len(Group) < MaxParses
    /\ Total(Group) < MaxCommands
    /\ returned' = Append(returned, Flatten(out))
    /\ Group' = Append(Group, <<>>)
    /\ again' = FALSE
    /\ idx' = 0
    /\ out' = <<>>
    /\ lastcommand' = None
    /\ currLocation' = firstmove
    /\ step' = Entry
    /\ UNCHANGED <<MODAL, UNIT_FORMAT, inputs, LINENR, SPINDLE_SPEED,
                   LAST_SPINDLE_SPEED>>

\* return out; parse() is entered for the same path object once more
ParseAgain ==
    /\ idx = Len(Current)
    /\ Len(Current) > 0
    /\ Len(Group) < MaxParses
    /\ Total(Group) + Len(Current) <= MaxCommands
    /\ returned' = Append(returned, Flatten(out))
    /\ Group' = Append(Group, Current)
    /\ again' = TRUE
    /\ idx' = 0
    /\ out' = <<>>
    /\ lastcommand' = None
    /\ currLocation' = firstmove
    /\ step' = Entry
    /\ UNCHANGED <<MODAL, UNIT_FORMAT, inputs, LINENR, SPINDLE_SPEED,
                   LAST_SPINDLE_SPEED>>

Next == Translate \/ Retranslate \/ ParseNext \/ ParseAgain

Spec == Init /\ [][Next]_vars

-----------------------------------------------------------------------------
(* Reading the output *)

HasLetter(line, l) == \E k \in 1..Len(line) : line[k].letter = l

\* the words of a line with letter l, in order
WordsOf(line, l) == SelectSeq(line, LAMBDA w : w.letter = l)

\* the words of a line that are neither the line number nor a mnemonic
ParamWordsOf(line) ==
    SelectSeq(line, LAMBDA w : w.letter \in {params[k] : k \in 1..Len(params)})

Motion == {"G0", "G1", "G2", "G3"}

\* the latest iteration ran the translation of a command (lines 374-480)
StepTranslated == step.kind = "translated"

\* every line written so far by the running parse() call
OutLines == Flatten(out)

-----------------------------------------------------------------------------
(* C1: interlock invariant.  No line emitted by parse() contains both a    *)
(* Y-word and a Z-word.                                                    *)
C1_Interlock ==
    \A k \in 1..Len(OutLines) :
        ~(HasLetter(OutLines[k], "Y") /\ HasLetter(OutLines[k], "Z"))

(* C2: interlock split ordering.  A move whose emitted words include both  *)
(* a Y-word and a Z-word produces exactly two lines with the same          *)
(* mnemonic: first the line with every parameter except Z, then a line     *)
(* carrying only the Z-word.                                               *)
C2_SplitOrdering ==
    LET all == Flatten(step.lines)
    IN  (StepTranslated /\ HasLetter(all, "Y") /\ HasLetter(all, "Z")) =>
            /\ Len(step.lines) = 2
            /\ ~HasLetter(step.lines[1], "Z")
            /\ HasLetter(step.lines[1], "Y")
            /\ HasLetter(step.lines[2], parse_command(step.c.Name))
            /\ Len(ParamWordsOf(step.lines[2])) = 1
            /\ HasLetter(step.lines[2], "Z")

(* C3: vacuous-move elision.  A motion command (G0/G1/G2/G3) for which no  *)
(* X, Y or Z word is emitted produces no line at all and consumes no line  *)
(* number: every line a motion command does produce carries an X, Y or Z   *)
(* word, and the line counter moves only when a line is produced.          *)
C3_VacuousElision ==
    (StepTranslated /\ step.c.Name \in Motion) =>
        /\ \A k \in 1..Len(step.lines) :
              \/ HasLetter(step.lines[k], "X")
              \/ HasLetter(step.lines[k], "Y")
              \/ HasLetter(step.lines[k], "Z")
        /\ (step.lines = <<>> => LINENR = step.pre.LINENR)

(* C4: run determinism.  Translating the same path object a second time    *)
(* yields the same text as the first time: once the second translation has *)
(* consumed every command, its output equals the output returned by the    *)
(* first.                                                                  *)
C4_RunDeterminism ==
    (again /\ idx = Len(Current)) => OutLines = returned[Len(returned)]

C4_Retranslated ==
    /\ again
    /\ idx = Len(Current)
    /\ OutLines # <<>>

(* C5: spindle-speed edge emission.  The translation of a command appends  *)
(* a spindle word to its line if and only if SPINDLE_SPEED differs from    *)
(* LAST_SPINDLE_SPEED, and the word carries SPINDLE_SPEED: apart from the  *)
(* word an S parameter of the command itself puts on the line, the line    *)
(* holds one S word, its last, when the two speeds differ, and none when   *)
(* they are equal.                                                         *)
OwnS(c) == IF "S" \in DOMAIN c.Parameters THEN 1 ELSE 0

SameXPair(j) ==
    /\ Current[j - 1].Name = "G1"
    /\ Current[j].Name = "G1"
    /\ "X" \in DOMAIN Current[j - 1].Parameters
    /\ "X" \in DOMAIN Current[j].Parameters
    /\ Current[j - 1].Parameters["X"] = Current[j].Parameters["X"]
    /\ \A i \in 1..(j - 2) :
          ~ /\ "X" \in DOMAIN Current[i].Parameters
            /\ Current[i].Parameters["X"] = Current[j].Parameters["X"]

C6_AxisModal ==
    \A j \in 2..idx :
        SameXPair(j) =>
            /\ \E k \in 1..Len(out[j - 1]) : HasLetter(out[j - 1][k], "X")
            /\ \A k \in 1..Len(out[j]) : ~HasLetter(out[j][k], "X")

(* C7: an unrecognized command name (not in the dialect table, not a       *)
(* spindle-on or units command) produces no line and leaves the line       *)
(* counter, both spindle speeds, the last command and the last values of   *)
(* every letter as they were.                                              *)
Recognized == DOMAIN command_map \cup {"M3", "M4", "G21"}

C8_InvalidFeed ==
    ( /\ step.kind # "entry"
      /\ "F" \in DOMAIN step.c.Parameters
      /\ step.c.Parameters["F"] < 0 ) =>
        /\ step.kind = "InvalidFeed"
        /\ step.lines = <<>>

(* C9: length formatting.  Every X, Y or Z word emitted carries the length *)
(* in the configured unit times 100, rounded to the nearest integer, with  *)
(* an explicit sign.                                                       *)
RoundDiv(a, b) ==
    IF a >= 0 THEN (2 * a + b) \div (2 * b)
    ELSE -((2 * (-a) + b) \div (2 * b))

Rounded(v, unit) == IF unit = "mm" THEN RoundDiv(v, 10) ELSE RoundDiv(v, 254)

C9_LengthRounded ==
    StepTranslated =>
        \A k \in 1..Len(step.lines) :
            \A n \in 1..Len(step.lines[k]) :
                LET w == step.lines[k][n]
                IN  w.letter \in {"X", "Y", "Z"} =>
                      LET r == Rounded(step.c.Parameters[w.letter], UNIT_FORMAT)
                      IN  /\ w.mag = Abs(r)
                          /\ w.sign = IF r >= 0 THEN "+" ELSE "-"

(* C10: modal command-word suppression.  With modal output enabled, the    *)
(* line of a command lacks its mnemonic exactly when the mnemonic is that  *)
(* of the command that produced the previous line of this parse() call;    *)
(* with modal output disabled every line carries its mnemonic.             *)
Latest(S) == CHOOSE i \in S : \A k \in S : k <= i

LastEmitted(j) ==
    LET S == {i \in 1..(j - 1) : out[i] # <<>>}
    IN  IF S = {} THEN None ELSE parse_command(Current[Latest(S)].Name)

C10_ModalCommand ==
    \A j \in 1..idx :
        \A k \in 1..Len(out[j]) :
            LET m == parse_command(Current[j].Name)
            IN  IF MODAL
                THEN ~HasLetter(out[j][k], m) <=> (m = LastEmitted(j))
                ELSE HasLetter(out[j][k], m)

C10_MnemonicOmitted ==
    /\ MODAL
    /\ idx >= 2
    /\ Len(out[idx]) = 1
    /\ ~HasLetter(out[idx][1], parse_command(Current[idx].Name))

(* C11: feed tracking records only emitted feeds.  When a non-rapid move   *)
(* carries a feed that formats to a positive value and its line has no F   *)
(* word, an earlier line of this parse() call carries the F word of that   *)
(* value.                                                                  *)
LinesBefore(j) == Flatten(SubSeq(out, 1, j - 1))

C11_FeedOnlyEmitted ==
    ( /\ StepTranslated
      /\ step.c.Name \notin {"G0", "G00"}
      /\ "F" \in DOMAIN step.c.Parameters
      /\ SpeedInt(step.c.Parameters["F"], UNIT_FORMAT) > 0
      /\ \A k \in 1..Len(step.lines) : ~HasLetter(step.lines[k], "F") ) =>
        \E k \in 1..Len(LinesBefore(idx)) :
            \E n \in 1..Len(LinesBefore(idx)[k]) :
                LET w == LinesBefore(idx)[k][n]
                IN  /\ w.letter = "F"
                    /\ w.mag = SpeedInt(step.c.Parameters["F"], UNIT_FORMAT)

(* C12: an S parameter of a translated command is not emitted as a word of *)
(* its own: it becomes the magnitude of SPINDLE_SPEED, and the line        *)
(* carries at most one spindle word.                                       *)
C12_SParameter ==
    (StepTranslated /\ "S" \in DOMAIN step.c.Parameters) =>
        /\ Abs(SPINDLE_SPEED) = Abs(step.c.Parameters["S"])
        /\ \A k \in 1..Len(step.lines) :
              Len(WordsOf(step.lines[k], "S")) <= 1

(* C13: in every iteration LAST_SPINDLE_SPEED changes if and only if a     *)
(* spindle word was put on a line written in that iteration, and after the *)
(* change it equals the value of that word.                                *)
C13_LastSpindleSpeed ==
    step.kind # "entry" =>
        LET written == \E k \in 1..Len(step.lines) :
                           HasLetter(step.lines[k], "S")
        IN  /\ (LAST_SPINDLE_SPEED # step.pre.LAST_SPINDLE_SPEED) <=> written
            /\ (LAST_SPINDLE_SPEED # step.pre.LAST_SPINDLE_SPEED) =>
                   \E k \in 1..Len(step.lines) :
                       \E n \in 1..Len(step.lines[k]) :
                           /\ step.lines[k][n].letter = "S"
                           /\ step.lines[k][n].mag * 1000
                                  = Abs(LAST_SPINDLE_SPEED)

(* C14: spindle direction sign.  After M3 SPINDLE_SPEED is not negative,   *)
(* after M4 it is not positive.                                            *)
C14_SpindleSign ==
    step.kind = "spindle" =>
        /\ (step.c.Name = "M3" => SPINDLE_SPEED >= 0)
        /\ (step.c.Name = "M4" => SPINDLE_SPEED <= 0)

(* C15: the letters other than X, Y, Z, F, S, T, H, D are emitted whenever *)
(* a translated command carries them, and the last values kept are those   *)
(* of X, Y, Z and F only.                                                  *)
OtherLetters == {"I", "J", "Q", "R", "L", "P"}

C15_OtherLetters ==
    StepTranslated =>
        /\ \A p \in OtherLetters \cap DOMAIN step.c.Parameters :
              \E k \in 1..Len(step.lines) : HasLetter(step.lines[k], p)
        /\ DOMAIN currLocation \subseteq {"X", "Y", "Z", "F"}

(* C16: line numbering.  An iteration advances the line counter by one for *)
(* each line it writes and not at all when it writes none, and the lines   *)
(* of a parse() call carry consecutive numbers that end at the counter.    *)
C16_LineNumbering ==
    /\ step.kind # "entry" => LINENR = step.pre.LINENR + Len(step.lines)
    /\ \A k \in 1..Len(OutLines) :
          /\ OutLines[k][1].letter = "N"
          /\ OutLines[k][1].mag = LINENR - Len(OutLines) + k

\* two numbered lines with a command in between that wrote none
C16_GapBetweenLines ==
    /\ idx = 3
    /\ out[1] # <<>>
    /\ out[2] = <<>>
    /\ out[3] # <<>>
    /\ step.pre.LINENR > 0

(* C17: feed formatting.  The F word of a non-rapid command carries the    *)
(* feed in the configured speed unit truncated to an integer, and is never *)
(* emitted with the value zero.                                            *)
C17_FeedTruncated ==
    (StepTranslated /\ step.c.Name \notin {"G0", "G00"}) =>
        \A k \in 1..Len(step.lines) :
            \A n \in 1..Len(step.lines[k]) :
                LET w == step.lines[k][n]
                IN  w.letter = "F" =>
                      /\ w.mag = SpeedInt(step.c.Parameters["F"], UNIT_FORMAT)
                      /\ w.mag > 0

(* C18: every spindle word written carries an explicit sign, "+" or "-".   *)
C18_SpindleSigned ==
    \A k \in 1..Len(OutLines) :
        \A n \in 1..Len(OutLines[k]) :
            OutLines[k][n].letter = "S" => OutLines[k][n].sign \in {"+", "-"}

(* C19: an X, Y or Z word is left out of a translated move only if the     *)
(* most recent word written for that axis, in this or an earlier parse()   *)
(* call, carries the same value.                                           *)
WrittenBefore(j) == Flatten(returned) \o LinesBefore(j)

C19_AxisIntent ==
    StepTranslated =>
        \A a \in {"X", "Y", "Z"} \cap DOMAIN step.c.Parameters :
            (\A k \in 1..Len(step.lines) : ~HasLetter(step.lines[k], a)) =>
                LET ws == WordsOf(Flatten(WrittenBefore(idx)), a)
                IN  /\ ws # <<>>
                    /\ ws[Len(ws)]
                         = LengthWord(a, step.c.Parameters[a], UNIT_FORMAT)

(* C20: with modal output enabled, at every line the most recent mnemonic  *)
(* word written, in this or an earlier parse() call, is the mnemonic of    *)
(* the command that produced the line.                                     *)
Mnemonics == {command_map[n] : n \in DOMAIN command_map}

MnemonicWords(lines) ==
    SelectSeq(Flatten(lines), LAMBDA w : w.letter \in Mnemonics)

C20_CommandIntent ==
    MODAL =>
        \A j \in 1..idx :
            out[j] # <<>> =>
                LET ws == MnemonicWords(WrittenBefore(j + 1))
                IN  /\ ws # <<>>
                    /\ ws[Len(ws)].letter = parse_command(Current[j].Name)

\* a second path object whose second line relies on the mnemonic in effect
C20_ModalAcrossObjects ==
    /\ MODAL
    /\ Len(returned) >= 1
    /\ returned[1] # <<>>
    /\ idx = 2
    /\ Len(out[1]) = 1
    /\ Len(out[2]) = 1
    /\ ~HasLetter(out[2][1], parse_command(Current[2].Name))

====
